---- MODULE Spec2Model ----
(***************************************************************************)
(* A model of the native procedure library of Vaterite-Lisp (src/core.rs). *)
(* Values are records with a "tag" field, one per variant of types::Value. *)
(* Text (String, Chars) is a sequence of one-character strings.            *)
(***************************************************************************)
EXTENDS Integers, Sequences, FiniteSets, TLC

VARIABLES
    names,   \* the NamePool: the interned texts, Name i is names[i + 1]
    boxes,   \* the RefCell behind every Value::Box, by reference number
    held,    \* the values the caller holds (its bindings), by slot
    hist,    \* the completed native calls, the most recent first
    run      \* the native call in progress: its position and its locals

vars == <<names, boxes, held, hist, run>>

-----------------------------------------------------------------------------
(* Bounds of the model *)

MaxLen == 2      \* longest input List
MaxHist == 3     \* calls remembered in hist
MaxArgs == 3     \* most key/value arguments of one call
MaxChain == 3    \* most cells of a finite Lazy chain
MaxPieces == 3   \* most pieces a format template is put together from
MaxFmtArgs == 2  \* most arguments after the template of format
MaxCalls == 2    \* calls a caller of the keyed session makes
MaxOrd == 10     \* longest List an ordinal accessor is called on

-----------------------------------------------------------------------------
(* types::Value *)

Nil == [tag |-> "Nil"]
True == [tag |-> "True"]
False == [tag |-> "False"]
Num(n) == [tag |-> "Num", n |-> n]
Str(s) == [tag |-> "Str", s |-> s]
Sym(n) == [tag |-> "Sym", name |-> n]
Keyword(n) == [tag |-> "Keyword", name |-> n]
List(l) == [tag |-> "List", l |-> l]
Map(m) == [tag |-> "Map", m |-> m]
Struct(id, data) == [tag |-> "Struct", id |-> id, data |-> data]
Box(r) == [tag |-> "Box", ref |-> r]
NatFunc(f) == [tag |-> "NatFunc", f |-> f]
Func(f) == [tag |-> "Func", f |-> f]
Lazy(head, tail, env) == [tag |-> "Lazy", head |-> head, tail |-> tail, env |-> env]

(* impl From<bool> for Value *)
FromBool(b) == IF b THEN True ELSE False

(* impl From<Vec<Value>> for Value *)
FromVec(l) == List(l)

(* ValueResult = Result<Value, error::Error> *)
Ok(v) == [ok |-> TRUE, val |-> v]
Err(kind, msg) == [ok |-> FALSE, err |-> kind, msg |-> msg]

(* type_err!(t, v) *)
type_err(t, v) == Err("TypeErr", t)

(* impl From<String> / From<&str> for error::Error *)
MsgErr(msg) == Err("Msg", msg)

(* impl From<Option<Value>> for Value *)
FromOption(l, i) == IF i >= 1 /\ i <= Len(l) THEN l[i] ELSE Nil

-----------------------------------------------------------------------------
(* Value::first, Value::rest (types.rs) *)

first(v) ==
    CASE v.tag = "Nil" -> Ok(Nil)
      [] v.tag = "List" -> IF Len(v.l) = 0 THEN Ok(Nil) ELSE Ok(v.l[1])
      [] v.tag = "Lazy" -> Ok(v.head)
      [] OTHER -> type_err("collection", v)

rest(v) ==
    CASE v.tag = "Nil" -> Ok(Nil)
      [] v.tag = "List" -> IF Len(v.l) = 0 THEN Ok(Nil) ELSE Ok(List(Tail(v.l)))
      [] OTHER -> type_err("collection", v)

-----------------------------------------------------------------------------
(* List operations of core.rs *)

operator_head(v) == first(v[1])

operator_tail(v) == rest(v[1])

operator_cons_dropping(v) ==
    CASE v[2].tag = "List" -> Ok(FromVec(v[2].l))
      [] v[2].tag = "Nil" -> Ok(FromVec(<<>>))
      [] OTHER -> MsgErr("Can't cons to a non-list")

operator_cons(v) ==
    CASE v[2].tag = "List" ->
            IF Len(v[2].l) = 0
                THEN Ok(FromVec(<<v[1]>>))
                ELSE Ok(FromVec(<<v[1]>> \o v[2].l))
      [] v[2].tag = "Nil" -> Ok(FromVec(<<v[1]>>))
      [] OTHER -> MsgErr("Can't cons to a non-list")

-----------------------------------------------------------------------------
(* The caller: it holds values in slots and calls natives on them.  An      *)
(* argument is taken from a slot of held, or (slot 0) is the value the      *)
(* previous call returned.                                                  *)

(* a completed call; cb lists the callbacks (eval, apply) it made, in order *)
CallCb(op, args, src, ret, cb) ==
    [op |-> op, args |-> args, src |-> src, ret |-> ret, cb |-> cb]

Call(op, args, src, ret) == CallCb(op, args, src, ret, <<>>)

NoRun == [pc |-> "idle"]

Idle == run.pc = "idle"

UsesLast(c) == \E k \in 1..Len(c.src) : c.src[k] = 0

(* hist holds one composition: a call on the previous call's result extends *)
(* it, a call on held values alone starts a new one *)
Record(c) == hist' = IF UsesLast(c) THEN <<c>> \o hist ELSE <<c>>

(* hist holds the calls in the order they were made; a caller that makes  *)
(* calls in sequence stops after MaxHist of them                          *)
Log(c) == hist' = <<c>> \o hist

CanCall == Idle /\ Len(hist) < MaxHist

HasLast == Len(hist) > 0 /\ Len(hist) < MaxHist /\ hist[1].ret.ok

(* the slots an argument may come from *)
Slots == (1..Len(held)) \cup (IF HasLast THEN {0} ELSE {})

Arg(i) == IF i = 0 THEN hist[1].ret.val ELSE held[i]

Args(src) == [k \in 1..Len(src) |-> Arg(src[k])]

(* a native's result together with the NamePool it leaves *)
Out(res, nm) == [res |-> res, names |-> nm]

(* make the call op on the arguments at src, with outcome out *)
Native(op, src, out) ==
    /\ Idle
    /\ Record(Call(op, Args(src), src, out.res))
    /\ names' = out.names
    /\ UNCHANGED <<boxes, held, run>>

-----------------------------------------------------------------------------
(* Input values *)

Elems == {Num(1), Str(<<"a">>)}

RECURSIVE SeqsUpTo(_, _)
SeqsUpTo(S, n) ==
    IF n = 0 THEN {<<>>}
    ELSE LET shorter == SeqsUpTo(S, n - 1)
         IN shorter \cup {<<x>> \o s : x \in S, s \in {t \in shorter : Len(t) = n - 1}}

Lists == {List(l) : l \in SeqsUpTo(Elems, MaxLen)}

-----------------------------------------------------------------------------
(* List session: the caller holds an element x and a list L *)

InitList ==
    /\ names = <<>>
    /\ boxes = <<>>
    /\ held \in {<<x, L>> : x \in Elems, L \in Lists \cup {Nil}}
    /\ hist = <<>>
    /\ run = NoRun

Cons ==
    \E i \in Slots, j \in Slots :
        Native("cons", <<i, j>>, Out(operator_cons(Args(<<i, j>>)), names))

First ==
    \E i \in Slots :
        Native("first", <<i>>, Out(operator_head(Args(<<i>>)), names))

Rest ==
    \E i \in Slots :
        Native("rest", <<i>>, Out(operator_tail(Args(<<i>>)), names))

NextList == Cons \/ First \/ Rest

SpecList == InitList /\ [][NextList]_vars

-----------------------------------------------------------------------------
(* names::NamePool (names.rs): intern a text, resolve a Name *)

Has(nm, s) == \E i \in 1..Len(nm) : nm[i] = s

add(nm, s) ==
    IF Has(nm, s)
        THEN [id |-> (CHOOSE i \in 1..Len(nm) : nm[i] = s) - 1, names |-> nm]
        ELSE [id |-> Len(nm), names |-> Append(nm, s)]

get(nm, n) == nm[n + 1]

(* HashMap<Name, Value> *)
insert(map, k, val) == [x \in (DOMAIN map) \cup {k} |-> IF x = k THEN val ELSE map[x]]

remove(map, k) == [x \in (DOMAIN map) \ {k} |-> map[x]]

contains_key(map, k) == k \in DOMAIN map

EmptyMap == [x \in {} |-> Nil]

-----------------------------------------------------------------------------
(* Map operations of core.rs *)

KeyErr == MsgErr("Value can't be used as key")

(* the key/value loop of core_hashmap and operator_assoc: v[i] is a key, *)
(* v[i + 1] its value *)
RECURSIVE insert_pairs_first_wins(_, _, _, _)
insert_pairs_first_wins(v, i, map, nm) ==
    IF i > Len(v) THEN Out(Ok(Map(map)), nm)
    ELSE CASE v[i].tag \in {"Keyword", "Sym"} ->
                insert_pairs_first_wins(v, i + 2,
                    IF contains_key(map, v[i].name) THEN map
                    ELSE insert(map, v[i].name, v[i + 1]), nm)
           [] v[i].tag = "Str" ->
                LET a == add(nm, v[i].s)
                IN insert_pairs_first_wins(v, i + 2,
                    IF contains_key(map, a.id) THEN map
                    ELSE insert(map, a.id, v[i + 1]), a.names)
           [] OTHER -> Out(KeyErr, nm)

RECURSIVE insert_pairs(_, _, _, _)
insert_pairs(v, i, map, nm) ==
    IF i > Len(v) THEN Out(Ok(Map(map)), nm)
    ELSE CASE v[i].tag \in {"Keyword", "Sym"} ->
                insert_pairs(v, i + 2, insert(map, v[i].name, v[i + 1]), nm)
           [] v[i].tag = "Str" ->
                LET a == add(nm, v[i].s)
                IN insert_pairs(v, i + 2, insert(map, a.id, v[i + 1]), a.names)
           [] OTHER -> Out(KeyErr, nm)

core_hashmap_keys_first(v, nm) ==
    IF \E i \in 1..Len(v) : i % 2 = 1 /\ v[i].tag \notin {"Keyword", "Sym", "Str"}
        THEN Out(KeyErr, nm)
    ELSE IF Len(v) % 2 # 0 THEN Out(Err("KwArgErr", "hash-map"), nm)
    ELSE insert_pairs(v, 1, EmptyMap, nm)

core_hashmap(v, nm) ==
    IF Len(v) % 2 # 0
        THEN Out(Err("KwArgErr", "hash-map"), nm)
        ELSE insert_pairs(v, 1, EmptyMap, nm)

operator_assoc_keeping(v, nm) ==
    IF v[1].tag # "Map" THEN Out(type_err("map", v[1]), nm)
    ELSE IF Len(Tail(v)) % 2 # 0 THEN Out(Err("KwArgErr", "assoc"), nm)
    ELSE Out(Ok(v[1]), nm)

operator_assoc(v, nm) ==
    IF v[1].tag # "Map" THEN Out(type_err("map", v[1]), nm)
    ELSE IF Len(Tail(v)) % 2 # 0 THEN Out(Err("KwArgErr", "assoc"), nm)
    ELSE insert_pairs(Tail(v), 1, v[1].m, nm)

RECURSIVE remove_keys(_, _, _, _)
remove_keys(v, i, map, nm) ==
    IF i > Len(v) THEN Out(Ok(Map(map)), nm)
    ELSE CASE v[i].tag \in {"Keyword", "Sym"} ->
                remove_keys(v, i + 1, remove(map, v[i].name), nm)
           [] v[i].tag = "Str" ->
                LET a == add(nm, v[i].s)
                IN remove_keys(v, i + 1, remove(map, a.id), a.names)
           [] OTHER -> Out(KeyErr, nm)

operator_dissoc(v, nm) ==
    IF v[1].tag # "Map" THEN Out(type_err("map", v[1]), nm)
    ELSE remove_keys(Tail(v), 1, v[1].m, nm)

operator_map_get_nil(v, nm) ==
    IF v[1].tag # "Map" THEN Out(type_err("map", v[1]), nm)
    ELSE CASE v[2].tag \in {"Keyword", "Sym"} ->
                Out(Ok(IF contains_key(v[1].m, v[2].name) THEN v[1].m[v[2].name] ELSE Nil), nm)
           [] v[2].tag = "Str" ->
                LET a == add(nm, v[2].s)
                IN Out(Ok(IF contains_key(v[1].m, a.id) THEN v[1].m[a.id] ELSE Nil), a.names)
           [] OTHER -> Out(KeyErr, nm)

operator_map_get(v, nm) ==
    IF v[1].tag # "Map" THEN Out(type_err("map", v[1]), nm)
    ELSE CASE v[2].tag \in {"Keyword", "Sym"} ->
                IF contains_key(v[1].m, v[2].name)
                    THEN Out(Ok(v[1].m[v[2].name]), nm)
                    ELSE Out(MsgErr("Key is not present in map"), nm)
           [] v[2].tag = "Str" ->
                LET a == add(nm, v[2].s)
                IN IF contains_key(v[1].m, a.id)
                    THEN Out(Ok(v[1].m[a.id]), a.names)
                    ELSE Out(MsgErr("Key is not present in map"), a.names)
           [] OTHER -> Out(KeyErr, nm)

operator_has_key(v, nm) ==
    IF v[1].tag # "Map" THEN Out(type_err("map", v[1]), nm)
    ELSE CASE v[2].tag \in {"Keyword", "Sym"} ->
                Out(Ok(FromBool(contains_key(v[1].m, v[2].name))), nm)
           [] v[2].tag = "Str" ->
                LET a == add(nm, v[2].s)
                IN Out(Ok(FromBool(contains_key(v[1].m, a.id))), a.names)
           [] OTHER -> Out(KeyErr, nm)

-----------------------------------------------------------------------------
(* Map session: the caller holds a map M, a key k and a value v.  The      *)
(* reader has interned "a" and "b".                                        *)

Text_a == <<"a">>
Text_b == <<"b">>
Text_c == <<"c">>

Maps == {Map(EmptyMap), Map(0 :> Num(1)), Map(1 :> Nil),
         Map((0 :> Nil) @@ (1 :> Num(1)))}

Keys == {Sym(0), Keyword(1), Str(Text_a), Str(Text_c)}

MapVals == {Num(2), Str(Text_b), Nil}

InitMap ==
    /\ names = <<Text_a, Text_b>>
    /\ boxes = <<>>
    /\ held \in {<<M, k, v>> : M \in Maps, k \in Keys \cup {Num(1)}, v \in MapVals}
    /\ hist = <<>>
    /\ run = NoRun

(* the argument lists of slots 2 and 3 with at most n entries *)
KeyValSlots(n) == SeqsUpTo({2, 3}, n)

HashMap ==
    \E src \in KeyValSlots(MaxArgs) :
        Native("hash-map", src, core_hashmap(Args(src), names))

Assoc ==
    \E src \in KeyValSlots(MaxArgs) :
        Native("assoc", <<1>> \o src, operator_assoc(Args(<<1>> \o src), names))

MapSlots == {1} \cup (IF HasLast THEN {0} ELSE {})

Dissoc ==
    \E m \in MapSlots :
        Native("dissoc", <<m, 2>>, operator_dissoc(Args(<<m, 2>>), names))

GetKey ==
    \E m \in MapSlots :
        Native("get-key", <<m, 2>>, operator_map_get(Args(<<m, 2>>), names))

HasKey ==
    \E m \in MapSlots :
        Native("has-key?", <<m, 2>>, operator_has_key(Args(<<m, 2>>), names))

NextMap == HashMap \/ Assoc \/ Dissoc \/ GetKey \/ HasKey

SpecMap == InitMap /\ [][NextMap]_vars

-----------------------------------------------------------------------------
(* The evaluator callback carried by a Lazy cell: eval(tail, env, names).  *)
(* A tail expression tells its place `at` in the chain `of` it belongs to; *)
(* it evaluates, in the environment of its cell, to the next cell or to    *)
(* what the chain ends with.                                               *)

Chain(heads, end) == [heads |-> heads, end |-> end]

Expr(at, of) == [tag |-> "Expr", at |-> at, of |-> of]

Cell(of, i) == Lazy(of.heads[i], Expr(i, of), i)

eval(tail, env) ==
    IF env # tail.at THEN Err("Eval", "unbound symbol")
    ELSE IF tail.at < Len(tail.of.heads) THEN Ok(Cell(tail.of, tail.at + 1))
    ELSE CASE tail.of.end = "nil" -> Ok(Nil)
           [] tail.of.end = "value" -> Ok(Num(0))
           [] tail.of.end = "error" -> Err("Eval", "raised")
           [] tail.of.end = "loop" -> Ok(Cell(tail.of, 1))

(* `*n as usize`: the cast saturates *)
as_usize(n) == IF n < 0 THEN 0 ELSE n

-----------------------------------------------------------------------------
(* operator_nth: the part before the loop, and one turn of the loop *)

Done(ret) == [done |-> TRUE, ret |-> ret]

Loop(count, nth, env) == [done |-> FALSE, count |-> count, nth |-> nth, env |-> env]

operator_nth(v) ==
    IF v[2].tag # "Num" THEN Done(type_err("number", v[2]))
    ELSE LET n == as_usize(v[2].n)
         IN CASE v[1].tag = "List" ->
                    IF Len(v[1].l) = 0
                        THEN Done(Ok(Nil))
                        ELSE Done(Ok(FromOption(v[1].l, n + 1)))
              [] v[1].tag = "Nil" -> Done(Ok(Nil))
              [] v[1].tag = "Lazy" ->
                    IF n = 0
                        THEN Done(Ok(v[1].head))
                        ELSE Loop(n, v[1].tail, v[1].env)
              [] OTHER -> Done(type_err("collection", v[1]))

operator_nth_loop_late(count, nth, env) ==
    LET r == eval(nth, env)
    IN IF ~r.ok THEN Done(r)
       ELSE IF r.val.tag = "Lazy"
            THEN IF count = 0
                    THEN Done(Ok(r.val.head))
                    ELSE Loop(count - 1, r.val.tail, r.val.env)
            ELSE Done(Ok(Nil))

operator_nth_loop(count, nth, env) ==
    LET c == count - 1
        r == eval(nth, env)
    IN IF ~r.ok THEN Done(r)
       ELSE IF r.val.tag = "Lazy"
            THEN IF c = 0
                    THEN Done(Ok(r.val.head))
                    ELSE Loop(c, r.val.tail, r.val.env)
            ELSE Done(Ok(Nil))

(* core_collect: the part before the loop, and one turn of the loop *)

Collecting(collect, nth, env) ==
    [done |-> FALSE, collect |-> collect, nth |-> nth, env |-> env]

core_collect(v) ==
    CASE v[1].tag = "List" -> Done(Ok(v[1]))
      [] v[1].tag = "Nil" -> Done(Ok(Nil))
      [] v[1].tag = "Lazy" -> Collecting(<<v[1].head>>, v[1].tail, v[1].env)
      [] OTHER -> Done(type_err("list", v[1]))

core_collect_loop_once(collect, nth, env) ==
    LET r == eval(nth, env)
    IN IF ~r.ok THEN Done(r)
       ELSE IF r.val.tag = "Lazy"
            THEN Done(Ok(FromVec(Append(collect, r.val.head))))
            ELSE Done(Ok(FromVec(collect)))

core_collect_loop(collect, nth, env) ==
    LET r == eval(nth, env)
    IN IF ~r.ok THEN Done(r)
       ELSE IF r.val.tag = "Lazy"
            THEN Collecting(Append(collect, r.val.head), r.val.tail, r.val.env)
            ELSE Done(Ok(FromVec(collect)))

-----------------------------------------------------------------------------
(* Lazy session: the caller holds a sequence and an index *)

Chains == {Chain(h, e) : h \in SeqsUpTo(Elems, MaxChain) \ {<<>>},
                         e \in {"nil", "value", "error", "loop"}}

Indexes == {Num(i) : i \in (-1)..(MaxChain + 1)}

(* the longest list collect gathers before the model stops following it *)
MaxCollect == MaxChain + 2

InitLazy ==
    /\ names = <<>>
    /\ boxes = <<>>
    /\ held \in {<<s, n>> : s \in {Cell(c, 1) : c \in Chains} \cup Lists \cup {Nil},
                             n \in Indexes \cup {Nil}}
    /\ hist = <<>>
    /\ run = NoRun

(* the call in progress returns *)
Return(op, args, src, ret, cb) ==
    /\ Log(CallCb(op, args, src, ret, cb))
    /\ run' = NoRun

(* the call in progress goes round its loop *)
Continue(op, args, src, locals, cb) ==
    /\ run' = [pc |-> op, args |-> args, src |-> src, locals |-> locals, cb |-> cb]
    /\ UNCHANGED hist

Nth ==
    /\ CanCall
    /\ LET src == <<1, 2>>
           r == operator_nth(Args(src))
       IN IF r.done
            THEN Return("nth", Args(src), src, r.ret, <<>>)
            ELSE Continue("nth", Args(src), src, r, <<>>)
    /\ UNCHANGED <<names, boxes, held>>

NthLoop ==
    /\ run.pc = "nth"
    /\ LET l == run.locals
           r == operator_nth_loop(l.count, l.nth, l.env)
           cb == Append(run.cb, <<l.nth, l.env>>)
       IN IF r.done
            THEN Return("nth", run.args, run.src, r.ret, cb)
            ELSE Continue("nth", run.args, run.src, r, cb)
    /\ UNCHANGED <<names, boxes, held>>

Collect ==
    /\ CanCall
    /\ LET src == <<1>>
           r == core_collect(Args(src))
       IN IF r.done
            THEN Return("collect", Args(src), src, r.ret, <<>>)
            ELSE Continue("collect", Args(src), src, r, <<>>)
    /\ UNCHANGED <<names, boxes, held>>

CollectLoop ==
    /\ run.pc = "collect"
    /\ Len(run.locals.collect) < MaxCollect
    /\ LET l == run.locals
           r == core_collect_loop(l.collect, l.nth, l.env)
           cb == Append(run.cb, <<l.nth, l.env>>)
       IN IF r.done
            THEN Return("collect", run.args, run.src, r.ret, cb)
            ELSE Continue("collect", run.args, run.src, r, cb)
    /\ UNCHANGED <<names, boxes, held>>

NextLazy == Nth \/ NthLoop \/ Collect \/ CollectLoop

SpecLazy == InitLazy /\ [][NextLazy]_vars

(* a native that is in its loop goes on running *)
SpecLazyFair == SpecLazy /\ WF_vars(CollectLoop) /\ WF_vars(NthLoop)

-----------------------------------------------------------------------------
(* Value::apply (types.rs): a NatFunc is arity-checked and invoked, a Func  *)
(* goes to the evaluator, anything else is a TypeErr.                       *)

operator_inc(v) ==
    IF v[1].tag = "Num" THEN Ok(Num(v[1].n + 1)) ELSE type_err("number", v[1])

apply(f, args) ==
    CASE f.tag = "NatFunc" /\ f.f = "list" -> Ok(FromVec(args))
      [] f.tag = "NatFunc" /\ f.f = "inc" ->
            IF Len(args) = 1 THEN operator_inc(args) ELSE Err("ArgErr", "inc")
      [] f.tag = "Func" /\ f.f = "raise" -> Err("Eval", "raised")
      [] OTHER -> type_err("function", f)

Applied(f, args) == [f |-> f, args |-> args, res |-> apply(f, args)]

-----------------------------------------------------------------------------
(* box, set-box, swap-box, deref: the closures of ns() *)

(* a native's result, the Box cells it leaves and the callbacks it made *)
BoxOut(res, bx, cb) == [res |-> res, boxes |-> bx, cb |-> cb]

box(v, bx) == BoxOut(Ok(Box(Len(bx) + 1)), Append(bx, v[1]), <<>>)

set_box_copying(v, bx) ==
    IF v[1].tag = "Box"
        THEN BoxOut(Ok(v[2]), bx, <<>>)
        ELSE BoxOut(MsgErr("Value is not a box"), bx, <<>>)

set_box(v, bx) ==
    IF v[1].tag = "Box"
        THEN BoxOut(Ok(v[2]), [bx EXCEPT ![v[1].ref] = v[2]], <<>>)
        ELSE BoxOut(MsgErr("Value is not a box"), bx, <<>>)

swap_box_new_value(v, bx) ==
    IF v[1].tag = "Box"
        THEN LET a == Applied(v[2], <<bx[v[1].ref]>> \o SubSeq(v, 3, Len(v)))
             IN IF a.res.ok
                    THEN BoxOut(Ok(a.res.val), [bx EXCEPT ![v[1].ref] = a.res.val], <<a>>)
                    ELSE BoxOut(a.res, bx, <<a>>)
        ELSE BoxOut(MsgErr("Value is not a box"), bx, <<>>)

swap_box(v, bx) ==
    IF v[1].tag = "Box"
        THEN LET a == Applied(v[2], <<bx[v[1].ref]>> \o SubSeq(v, 3, Len(v)))
             IN IF a.res.ok
                    THEN BoxOut(Ok(v[2]), [bx EXCEPT ![v[1].ref] = a.res.val], <<a>>)
                    ELSE BoxOut(a.res, bx, <<a>>)
        ELSE BoxOut(MsgErr("Value is not a box"), bx, <<>>)

deref(v, bx) ==
    IF v[1].tag = "Box"
        THEN BoxOut(Ok(bx[v[1].ref]), bx, <<>>)
        ELSE BoxOut(MsgErr("Can't deref non box"), bx, <<>>)

-----------------------------------------------------------------------------
(* Box session: two boxes exist; the caller holds the first in slot 1, the *)
(* first again or the second in slot 2, a function in slot 3 and a value   *)
(* in slot 4.                                                              *)

Callables == {NatFunc("list"), NatFunc("inc"), Func("raise"), Num(1)}

InitBox ==
    /\ names = <<>>
    /\ boxes = <<Num(1), Nil>>
    /\ held \in {<<Box(1), b, f, x>> : b \in {Box(1), Box(2), Nil},
                                      f \in Callables, x \in {Num(5), Nil}}
    /\ hist = <<>>
    /\ run = NoRun

BoxNative(op, src, out) ==
    /\ CanCall
    /\ Log(CallCb(op, Args(src), src, out.res, out.cb))
    /\ boxes' = out.boxes
    /\ UNCHANGED <<names, held, run>>

BoxSlots == {1, 2} \cup (IF HasLast THEN {0} ELSE {})

MakeBox == BoxNative("box", <<4>>, box(Args(<<4>>), boxes))

SetBox ==
    \E b \in BoxSlots :
        BoxNative("set-box", <<b, 4>>, set_box(Args(<<b, 4>>), boxes))

SwapBox ==
    \E b \in BoxSlots, extra \in {<<>>, <<4>>} :
        BoxNative("swap-box", <<b, 3>> \o extra, swap_box(Args(<<b, 3>> \o extra), boxes))

Deref ==
    \E b \in BoxSlots :
        BoxNative("deref", <<b>>, deref(Args(<<b>>), boxes))

NextBox == MakeBox \/ SetBox \/ SwapBox \/ Deref

SpecBox == InitBox /\ [][NextBox]_vars

-----------------------------------------------------------------------------
(* make-struct, index-struct, assert-struct *)

core_make_struct(v, nm) ==
    IF v[1].tag # "Sym" THEN MsgErr("Struct id must be a symbol")
    ELSE Ok(Struct(get(nm, v[1].name), Tail(v)))

MismatchErr == MsgErr("Expected {} struct but found {}")

core_member_struct_index_first(v, nm) ==
    IF v[1].tag # "Struct" THEN type_err("struct", v[1])
    ELSE IF v[2].tag # "Sym" THEN type_err("symbol", v[2])
    ELSE IF v[3].tag # "Num" THEN type_err("number", v[3])
    ELSE IF as_usize(v[3].n) + 1 > Len(v[1].data)
        THEN MsgErr("Invalid access to struct {}, index {} not found")
    ELSE IF v[1].id # get(nm, v[2].name) THEN MismatchErr
    ELSE Ok(v[1].data[as_usize(v[3].n) + 1])

core_member_struct(v, nm) ==
    IF v[1].tag # "Struct" THEN type_err("struct", v[1])
    ELSE IF v[2].tag # "Sym" THEN type_err("symbol", v[2])
    ELSE IF v[1].id # get(nm, v[2].name) THEN MismatchErr
    ELSE IF v[3].tag # "Num" THEN type_err("number", v[3])
    ELSE IF as_usize(v[3].n) + 1 > Len(v[1].data)
        THEN MsgErr("Invalid access to struct {}, index {} not found")
    ELSE Ok(v[1].data[as_usize(v[3].n) + 1])

core_assert_struct(v, nm) ==
    IF v[1].tag # "Struct" THEN MsgErr("Expected Struct got {:?}")
    ELSE IF v[2].tag # "Sym" THEN type_err("symbol", v[2])
    ELSE Ok(FromBool(v[1].id = get(nm, v[2].name)))

-----------------------------------------------------------------------------
(* Struct session: the caller holds a struct id, a field value, a symbol  *)
(* to check against and an index.  The reader has interned "a" and "b".   *)

InitStruct ==
    /\ names = <<Text_a, Text_b>>
    /\ boxes = <<>>
    /\ held \in {<<id, f, sym, idx>> :
                    id \in {Sym(0), Sym(1), Keyword(0)},
                    f \in {Str(Text_a), Nil},
                    sym \in {Sym(0), Sym(1), Keyword(1)},
                    idx \in {Num(i) : i \in (-1)..(MaxArgs + 1)} \cup {Nil}}
    /\ hist = <<>>
    /\ run = NoRun

MakeStruct ==
    \E fields \in SeqsUpTo({2, 4}, MaxArgs) :
        Native("make-struct", <<1>> \o fields,
               Out(core_make_struct(Args(<<1>> \o fields), names), names))

StructSlots == {2} \cup (IF HasLast THEN {0} ELSE {})

IndexStruct ==
    \E s \in StructSlots :
        Native("index-struct", <<s, 3, 4>>,
               Out(core_member_struct(Args(<<s, 3, 4>>), names), names))

AssertStruct ==
    \E s \in StructSlots :
        Native("assert-struct", <<s, 3>>,
               Out(core_assert_struct(Args(<<s, 3>>), names), names))

NextStruct == MakeStruct \/ IndexStruct \/ AssertStruct

SpecStruct == InitStruct /\ [][NextStruct]_vars

-----------------------------------------------------------------------------
(* printer::Printer (printer.rs): str_name is the display form, repr_name *)
(* the debug form; both return a String.                                  *)

RECURSIVE Concat(_)
Concat(ss) == IF Len(ss) = 0 THEN <<>> ELSE Head(ss) \o Concat(Tail(ss))

Digit(n) == <<"0", "1", "2", "3", "4", "5", "6", "7", "8", "9">>[n + 1]

RECURSIVE Digits(_)
Digits(n) == IF n < 10 THEN <<Digit(n)>> ELSE Append(Digits(n \div 10), Digit(n % 10))

RECURSIVE Render(_, _)
Render(x, debug) ==
    CASE x.tag = "Nil" -> <<"n", "i", "l">>
      [] x.tag = "Num" -> IF x.n < 0 THEN <<"-">> \o Digits(0 - x.n) ELSE Digits(x.n)
      [] x.tag = "Str" -> IF debug THEN <<"\"">> \o x.s \o <<"\"">> ELSE x.s
      [] x.tag = "List" ->
            <<"(">> \o Concat([k \in 1..Len(x.l) |->
                        (IF k = 1 THEN <<>> ELSE <<" ">>) \o Render(x.l[k], debug)])
                   \o <<")">>
      [] OTHER -> <<"#">>

str_name(x) == Render(x, FALSE)

repr_name(x) == Render(x, TRUE)

(* format!("{:?}", s) of a String s: quoted, with quotes and backslashes escaped *)
rust_debug(s) ==
    <<"\"">> \o Concat([k \in 1..Len(s) |->
                    IF s[k] \in {"\"", "\\"} THEN <<"\\", s[k]>> ELSE <<s[k]>>])
           \o <<"\"">>

-----------------------------------------------------------------------------
(* core_format.  iter is the index of the next character of the template; *)
(* current is the positional cursor; used lists the cursor at each        *)
(* rendering of an argument.                                              *)

SyntaxErr == MsgErr("Invalid syntax in format string")
ClosingErr == MsgErr("Invalid syntax in format string expected closing }")
NotFoundErr == MsgErr("Value expected to format string not found")
NotListErr == MsgErr("Value expected to slice in format string must be a list")

Formatted(res, current, used) == [res |-> res, current |-> current, used |-> used]

None == [some |-> FALSE]
Some(x) == [some |-> TRUE, x |-> x]

(* the inner loop of the '@' branch: the separator up to the closing brace *)
RECURSIVE read_sep(_, _, _)
read_sep(fmt, iter, sep_) ==
    IF iter > Len(fmt) THEN [ok |-> FALSE, err |-> ClosingErr]
    ELSE IF fmt[iter] = "}" THEN [ok |-> TRUE, sep |-> Some(sep_), iter |-> iter + 1]
    ELSE read_sep(fmt, iter + 1, Append(sep_, fmt[iter]))

(* the '@' branch up to the lookup of the argument *)
list_sep(fmt, iter) ==
    IF iter > Len(fmt) THEN [ok |-> FALSE, err |-> SyntaxErr]
    ELSE IF fmt[iter] = "}" THEN [ok |-> TRUE, sep |-> None, iter |-> iter]
    ELSE read_sep(fmt, iter, <<>>)

(* the elements of the list argument as the '@' branch appends them *)
render_list(l, debug, sep) ==
    Concat([k \in 1..Len(l) |->
        IF k = 1
            THEN (IF debug THEN repr_name(l[k]) ELSE str_name(l[k]))
            ELSE (IF sep.some THEN sep.x ELSE <<>>)
                 \o (IF debug THEN rust_debug(repr_name(l[k])) ELSE str_name(l[k]))])

next_current_stuck(current) == current

(* current += 1 *)
next_current(current) == current + 1

RECURSIVE format_loop(_, _, _, _, _, _)
format_loop(v, fmt, iter, result, current, used) ==
    IF iter > Len(fmt) THEN Formatted(Ok(Str(result)), current, used)
    ELSE IF fmt[iter] = "{" THEN
        IF iter + 1 > Len(fmt) THEN Formatted(SyntaxErr, current, used)
        ELSE LET debug == fmt[iter + 1] = "?"
                 at == IF debug THEN iter + 2 ELSE iter + 1
             IN IF at > Len(fmt) THEN Formatted(SyntaxErr, current, used)
                ELSE CASE fmt[at] = "}" ->
                            IF current + 1 > Len(v)
                                THEN Formatted(NotFoundErr, current, used)
                                ELSE format_loop(v, fmt, at + 1,
                                        result \o (IF debug THEN repr_name(v[current + 1])
                                                            ELSE str_name(v[current + 1])),
                                        next_current(current), Append(used, current))
                       [] fmt[at] = "@" ->
                            LET s == list_sep(fmt, at + 1)
                            IN IF ~s.ok THEN Formatted(s.err, current, used)
                               ELSE IF current + 1 > Len(v)
                                    THEN Formatted(NotFoundErr, current, used)
                               ELSE IF v[current + 1].tag # "List"
                                    THEN Formatted(NotListErr, current, used)
                               ELSE format_loop(v, fmt, s.iter,
                                        result \o render_list(v[current + 1].l, debug, s.sep),
                                        next_current(current), Append(used, current))
                       [] fmt[at] = "{" ->
                            format_loop(v, fmt, at + 1, Append(result, "{"), current, used)
                       [] OTHER -> Formatted(SyntaxErr, current, used)
    ELSE IF fmt[iter] = "}" THEN
        IF iter + 1 <= Len(fmt) /\ fmt[iter + 1] = "}"
            THEN format_loop(v, fmt, iter + 2, Append(result, "}"), current, used)
            ELSE Formatted(SyntaxErr, current, used)
    ELSE format_loop(v, fmt, iter + 1, Append(result, fmt[iter]), current, used)

core_format(v) ==
    IF v[1].tag = "Str"
        THEN format_loop(v, v[1].s, 1, <<>>, 1, <<>>)
        ELSE Formatted(MsgErr("format requires a format string argument"), 1, <<>>)

-----------------------------------------------------------------------------
(* Format session: the caller holds a template and its arguments.  A      *)
(* template is put together from single characters and whole placeholders *)

Pieces == {<<"{">>, <<"}">>, <<"?">>, <<"@">>, <<"a">>,
           <<"{", "}">>, <<"{", "?", "}">>, <<"{", "@", "a", "}">>,
           <<"{", "?", "@", "a", "}">>, <<"{", "{">>, <<"}", "}">>}

Templates == {Str(Concat(ps)) : ps \in SeqsUpTo(Pieces, MaxPieces)}

Text_x == <<"x">>

FormatVals == {Str(Text_x), List(<<Str(Text_x), Num(1)>>)}

InitFormat ==
    /\ names = <<>>
    /\ boxes = <<>>
    /\ held \in {<<t>> \o as : t \in Templates \cup {Nil},
                                as \in SeqsUpTo(FormatVals, MaxFmtArgs)}
    /\ hist = <<>>
    /\ run = NoRun

Format ==
    /\ Idle
    /\ hist = <<>>
    /\ LET src == [k \in 1..Len(held) |-> k]
           f == core_format(Args(src))
       IN Record(CallCb("format", Args(src), src, f.res, f.used))
    /\ UNCHANGED <<names, boxes, held, run>>

NextFormat == Format

SpecFormat == InitFormat /\ [][NextFormat]_vars

-----------------------------------------------------------------------------
(* operator_map_update: the old value (Nil when the key is absent) and the *)
(* arguments after the function go to the function; its result is stored   *)

(* a native's result, the NamePool it leaves and the callbacks it made *)
CbOut(res, nm, cb) == [res |-> res, names |-> nm, cb |-> cb]

update_key_swallowing(v, map, key, nm) ==
    LET old == IF contains_key(map, key) THEN map[key] ELSE Nil
        a == Applied(v[3], <<old>> \o SubSeq(v, 4, Len(v)))
    IN IF a.res.ok
        THEN CbOut(Ok(Map(insert(map, key, a.res.val))), nm, <<a>>)
        ELSE CbOut(Ok(Map(map)), nm, <<a>>)

(* lines 286-290, with the key found *)
update_key(v, map, key, nm) ==
    LET old == IF contains_key(map, key) THEN map[key] ELSE Nil
        a == Applied(v[3], <<old>> \o SubSeq(v, 4, Len(v)))
    IN IF a.res.ok
        THEN CbOut(Ok(Map(insert(map, key, a.res.val))), nm, <<a>>)
        ELSE CbOut(a.res, nm, <<a>>)

operator_map_update(v, nm) ==
    IF v[1].tag # "Map" THEN CbOut(type_err("map", v[1]), nm, <<>>)
    ELSE CASE v[2].tag = "Str" ->
                LET a == add(nm, v[2].s)
                IN update_key(v, v[1].m, a.id, a.names)
           [] v[2].tag \in {"Keyword", "Sym"} -> update_key(v, v[1].m, v[2].name, nm)
           [] OTHER -> CbOut(KeyErr, nm, <<>>)

-----------------------------------------------------------------------------
(* Keyed session: the caller holds a map M, two keys with their values and *)
(* a function, and makes MaxCalls calls in sequence.  The reader has       *)
(* interned "a" and "b".                                                   *)

KeyForms == {Sym(0), Keyword(0), Str(Text_a), Str(Text_c), Num(1)}

InitKeys ==
    /\ names = <<Text_a, Text_b>>
    /\ boxes = <<>>
    /\ held \in {<<M, k, Num(2), k2, Num(3), NatFunc("inc")>> :
                    M \in Maps, k \in KeyForms,
                    k2 \in {Sym(0), Keyword(0), Str(Text_a), Keyword(1)}}
    /\ hist = <<>>
    /\ run = NoRun

(* make the call op on the arguments at src, in sequence *)
Sequenced(op, src, out, cb) ==
    /\ Idle
    /\ Len(hist) < MaxCalls
    /\ Log(CallCb(op, Args(src), src, out.res, cb))
    /\ names' = out.names
    /\ UNCHANGED <<boxes, held, run>>

(* the map argument: M, or the map the previous call returned *)
KeyedMaps ==
    {1} \cup (IF Len(hist) > 0 /\ hist[1].ret.ok /\ hist[1].ret.val.tag = "Map"
                THEN {0} ELSE {})

(* key/value argument lists: one pair, or both pairs in either order *)
PairSlots == {<<2, 3>>, <<2, 3, 4, 5>>, <<4, 5, 2, 3>>}

KeyedHashMap ==
    \E src \in PairSlots :
        Sequenced("hash-map", src, core_hashmap(Args(src), names), <<>>)

KeyedAssoc ==
    \E m \in KeyedMaps, src \in PairSlots :
        Sequenced("assoc", <<m>> \o src, operator_assoc(Args(<<m>> \o src), names), <<>>)

KeyedDissoc ==
    \E m \in KeyedMaps, k \in {2, 4} :
        Sequenced("dissoc", <<m, k>>, operator_dissoc(Args(<<m, k>>), names), <<>>)

KeyedGetKey ==
    \E m \in KeyedMaps, k \in {2, 4} :
        Sequenced("get-key", <<m, k>>, operator_map_get(Args(<<m, k>>), names), <<>>)

KeyedHasKey ==
    \E m \in KeyedMaps, k \in {2, 4} :
        Sequenced("has-key?", <<m, k>>, operator_has_key(Args(<<m, k>>), names), <<>>)

(* update on the map at m and the key at k, with the function at f and the *)
(* extra arguments at xs                                                   *)
Update(m, k, f, xs) ==
    LET src == <<m, k, f>> \o xs
        out == operator_map_update(Args(src), names)
    IN Sequenced("update", src, out, out.cb)

KeyedUpdate == \E m \in KeyedMaps, k \in {2, 4} : Update(m, k, 6, <<>>)

NextKeys ==
    \/ KeyedHashMap
    \/ KeyedAssoc
    \/ KeyedDissoc
    \/ KeyedGetKey
    \/ KeyedHasKey
    \/ KeyedUpdate

SpecKeys == InitKeys /\ [][NextKeys]_vars

-----------------------------------------------------------------------------
(* rev-cons and append *)

operator_rev_cons(v) ==
    CASE v[1].tag = "List" ->
            IF Len(v[1].l) = 0
                THEN Ok(FromVec(<<v[2]>>))
                ELSE Ok(FromVec(v[1].l \o <<v[2]>>))
      [] v[1].tag = "Nil" -> Ok(FromVec(<<v[2]>>))
      [] OTHER -> MsgErr("Can't rev-cons to a non-list")

(* the loop of core_append from argument i on, result gathered so far *)
RECURSIVE append_from(_, _, _)
append_from(v, i, result) ==
    IF i > Len(v) THEN Ok(FromVec(result))
    ELSE CASE v[i].tag = "List" -> append_from(v, i + 1, result \o v[i].l)
           [] v[i].tag = "Nil" -> append_from(v, i + 1, result)
           [] OTHER -> type_err("list", v[i])

core_append(v) == append_from(v, 1, <<>>)

-----------------------------------------------------------------------------
(* Sharing session: the caller holds a map, a key, a function, a list and  *)
(* an element, and makes one call of a native that builds a collection     *)
(* from a collection.  A List or Map is shared (Rc) by the caller's slot   *)
(* and the argument list of the call.                                      *)

InitShare ==
    /\ names = <<Text_a, Text_b>>
    /\ boxes = <<>>
    /\ held \in {<<M, k, f, L, Num(2)>> :
                    M \in {Map(EmptyMap), Map((0 :> Nil) @@ (1 :> Num(1)))},
                    k \in {Sym(0), Str(Text_c), Num(1)},
                    f \in {NatFunc("inc"), Func("raise")},
                    L \in Lists \cup {Nil}}
    /\ hist = <<>>
    /\ run = NoRun

(* the one call of the session *)
Once(op, src, out) ==
    /\ hist = <<>>
    /\ Native(op, src, out)

(* the slots a collection argument is taken from *)
Shared == {1, 4}

ShareAssoc ==
    \E m \in Shared, kv \in {<<>>, <<2>>, <<2, 5>>} :
        Once("assoc", <<m>> \o kv, operator_assoc(Args(<<m>> \o kv), names))

ShareDissoc ==
    \E m \in Shared, ks \in {<<>>, <<2>>} :
        Once("dissoc", <<m>> \o ks, operator_dissoc(Args(<<m>> \o ks), names))

ShareUpdate ==
    \E m \in Shared :
        Once("update", <<m, 2, 3>>, operator_map_update(Args(<<m, 2, 3>>), names))

ShareCons ==
    \E c \in Shared :
        Once("cons", <<5, c>>, Out(operator_cons(Args(<<5, c>>)), names))

ShareRevCons ==
    \E c \in Shared :
        Once("rev-cons", <<c, 5>>, Out(operator_rev_cons(Args(<<c, 5>>)), names))

(* append stores what it gathered in its first argument *)
ShareAppend_in_place ==
    \E src \in SeqsUpTo(Shared, MaxArgs) :
        LET res == core_append(Args(src))
        IN /\ hist = <<>>
           /\ Idle
           /\ Record(Call("append", Args(src), src, res))
           /\ held' = IF res.ok /\ Len(src) > 0
                        THEN [held EXCEPT ![src[1]] = res.val]
                        ELSE held
           /\ UNCHANGED <<names, boxes, run>>

ShareAppend ==
    \E src \in SeqsUpTo(Shared, MaxArgs) :
        Once("append", src, Out(core_append(Args(src)), names))

NextShare ==
    \/ ShareAssoc
    \/ ShareDissoc
    \/ ShareUpdate
    \/ ShareCons
    \/ ShareRevCons
    \/ ShareAppend

SpecShare == InitShare /\ [][NextShare]_vars

-----------------------------------------------------------------------------
(* len, join, map, reverse *)

operator_len(v) ==
    CASE v[1].tag = "List" -> Ok(Num(Len(v[1].l)))
      [] v[1].tag = "Chars" -> Ok(Num(Len(v[1].chs)))
      [] v[1].tag = "Str" -> Ok(Num(Len(v[1].s)))
      [] v[1].tag = "Nil" -> Ok(Num(0))
      [] OTHER -> type_err("list, chars or string", v[1])

core_join(v) ==
    IF v[1].tag # "Str" THEN type_err("string", v[1])
    ELSE CASE v[2].tag = "List" ->
                Ok(Str(Concat([k \in 1..Len(v[2].l) |->
                        (IF k = 1 THEN <<>> ELSE v[1].s) \o str_name(v[2].l[k])])))
           [] v[2].tag = "Nil" -> Ok(Str(<<>>))
           [] OTHER -> type_err("list", v[2])

(* the loop of core_map from element i on *)
RECURSIVE map_from(_, _, _, _)
map_from(func, seq, i, result) ==
    IF i > Len(seq) THEN Ok(FromVec(result))
    ELSE LET r == apply(func, <<seq[i]>>)
         IN IF r.ok THEN map_from(func, seq, i + 1, Append(result, r.val)) ELSE r

core_map(v) ==
    IF v[2].tag = "List"
        THEN map_from(v[1], v[2].l, 1, <<>>)
        ELSE type_err("list", v[2])

reverse(v) ==
    IF v[1].tag = "List"
        THEN Ok(FromVec([k \in 1..Len(v[1].l) |-> v[1].l[Len(v[1].l) + 1 - k]]))
        ELSE MsgErr("Can't reverse a non list")

-----------------------------------------------------------------------------
(* Sequence session: the caller holds the two empty sequences, Nil and the *)
(* zero-length List, a list, an element, an index, a separator and a       *)
(* function, and makes MaxCalls calls in sequence.                         *)

InitSeq ==
    /\ names = <<>>
    /\ boxes = <<>>
    /\ held \in {<<Nil, List(<<>>), L, x, n, Str(<<",">>), f>> :
                    L \in {List(<<Num(1)>>), List(<<Num(1), Str(Text_a)>>)},
                    x \in Elems, n \in {Num(0), Num(1)},
                    f \in {NatFunc("inc"), Func("raise")}}
    /\ hist = <<>>
    /\ run = NoRun

(* the slots a sequence argument is taken from *)
Empties == {1, 2}

SeqCons ==
    \E e \in Empties :
        Sequenced("cons", <<4, e>>, Out(operator_cons(Args(<<4, e>>)), names), <<>>)

SeqRevCons ==
    \E e \in Empties :
        Sequenced("rev-cons", <<e, 4>>, Out(operator_rev_cons(Args(<<e, 4>>)), names), <<>>)

SeqAppend ==
    \E e \in Empties : \E src \in {<<e>>, <<e, 3>>, <<3, e>>} :
        Sequenced("append", src, Out(core_append(Args(src)), names), <<>>)

(* nth on a List or Nil returns without a turn of its loop *)
SeqNth ==
    \E e \in Empties :
        LET r == operator_nth(Args(<<e, 5>>))
        IN /\ r.done
           /\ Sequenced("nth", <<e, 5>>, Out(r.ret, names), <<>>)

SeqLen ==
    \E e \in Empties :
        Sequenced("len", <<e>>, Out(operator_len(Args(<<e>>)), names), <<>>)

SeqJoin ==
    \E e \in Empties :
        Sequenced("join", <<6, e>>, Out(core_join(Args(<<6, e>>)), names), <<>>)

(* collect on a List or Nil returns without a turn of its loop *)
SeqCollect ==
    \E e \in Empties :
        LET r == core_collect(Args(<<e>>))
        IN /\ r.done
           /\ Sequenced("collect", <<e>>, Out(r.ret, names), <<>>)

SeqMap ==
    \E e \in Empties \cup {3} :
        Sequenced("map", <<7, e>>, Out(core_map(Args(<<7, e>>)), names), <<>>)

SeqReverse ==
    \E e \in Empties \cup {3} :
        Sequenced("reverse", <<e>>, Out(reverse(Args(<<e>>)), names), <<>>)

NextSeq ==
    \/ SeqCons
    \/ SeqRevCons
    \/ SeqAppend
    \/ SeqNth
    \/ SeqLen
    \/ SeqJoin
    \/ SeqCollect
    \/ SeqMap
    \/ SeqReverse

SpecSeq == InitSeq /\ [][NextSeq]_vars

-----------------------------------------------------------------------------
(* The comparison operators (ord_op!) and chars/slice.  An index or a range *)
(* outside a Vec or slice makes the native panic: the call returns nothing. *)

Chars(chs) == [tag |-> "Chars", chs |-> chs]

Panic(msg) == [ok |-> FALSE, err |-> "panic", msg |-> msg]

(* left $op n *)
Compare(op, left, n) ==
    CASE op = "<" -> left < n
      [] op = ">" -> left > n
      [] op = "<=" -> left <= n
      [] op = ">=" -> left >= n

(* the loop of ord_op over v[1..], from argument i on *)
RECURSIVE ord_from(_, _, _, _)
ord_from(op, v, i, left) ==
    IF i > Len(v) THEN Ok(True)
    ELSE IF v[i].tag = "Num"
        THEN IF Compare(op, left, v[i].n) THEN ord_from(op, v, i + 1, v[i].n) ELSE Ok(False)
        ELSE type_err("number", v[i])

ord_op(op, v) ==
    IF Len(v) = 0 THEN Panic("index out of bounds")
    ELSE IF v[1].tag = "Num" THEN ord_from(op, v, 2, v[1].n)
    ELSE type_err("number", v[1])

(* &chars[start .. end] *)
slice(chs, start, end) ==
    IF start > end THEN Panic("slice index starts after its end")
    ELSE IF end > Len(chs) THEN Panic("range end index out of range")
    ELSE Ok(SubSeq(chs, start + 1, end))

core_chars_slice(v) ==
    CASE Len(v) = 2 ->
            IF v[1].tag = "Chars" /\ v[2].tag = "Num"
                THEN LET sl == slice(v[1].chs, as_usize(v[2].n), Len(v[1].chs))
                     IN IF sl.ok THEN Ok(Chars(sl.val)) ELSE sl
                ELSE MsgErr("arguments are invalid")
      [] Len(v) = 3 ->
            IF v[1].tag = "Chars" /\ v[2].tag = "Num" /\ v[3].tag = "Num"
                THEN LET sl == slice(v[1].chs, as_usize(v[2].n), as_usize(v[3].n))
                     IN IF ~sl.ok THEN sl
                        ELSE IF Len(sl.val) = 0 THEN Ok(Nil)
                        ELSE Ok(Chars(sl.val))
                ELSE MsgErr("arguments are invalid")
      [] OTHER -> MsgErr("arguments are invalid")

(* types::Arity and Arity::matches *)
Min(n) == [lo |-> n, hi |-> -1]
Range(lo, hi) == [lo |-> lo, hi |-> hi]
matches(arity, count) == count >= arity.lo /\ (arity.hi < 0 \/ count <= arity.hi)

-----------------------------------------------------------------------------
(* Arity session: the caller holds two numbers (or Nil) and a Chars, and   *)
(* makes one call with an argument count the native's Arity accepts.       *)

InitArity ==
    /\ names = <<>>
    /\ boxes = <<>>
    /\ held \in {<<x, y, Chars(chs)>> :
                    x \in {Num(-1), Num(0), Num(1), Num(3), Nil},
                    y \in {Num(0), Num(1), Num(3), Nil},
                    chs \in {<<>>, <<"a", "b">>}}
    /\ hist = <<>>
    /\ run = NoRun

(* the evaluator checks the arity and invokes the native; a native that *)
(* panics never returns                                                 *)
Invoke(op, arity, src, res) ==
    /\ Idle
    /\ hist = <<>>
    /\ matches(arity, Len(src))
    /\ Record(Call(op, Args(src), src, res))
    /\ run' = IF res.ok \/ res.err # "panic" THEN run ELSE [pc |-> "panicked"]
    /\ UNCHANGED <<names, boxes, held>>

Ord ==
    \E op \in {"<", ">", "<=", ">="}, src \in SeqsUpTo({1, 2}, MaxArgs) :
        Invoke(op, Min(0), src, ord_op(op, Args(src)))

CharsSlice ==
    \E src \in {<<3>>, <<3, 1>>, <<3, 1, 2>>, <<1, 2>>, <<3, 1, 2, 2>>} :
        Invoke("chars/slice", Range(2, 3), src, core_chars_slice(Args(src)))

NextArity == Ord \/ CharsSlice

SpecArity == InitArity /\ [][NextArity]_vars

-----------------------------------------------------------------------------
(* Failing-function session: the caller of the Box session also holds a   *)
(* map and a key, and calls swap-box, deref and update with the function  *)
(* it holds.  The reader has interned "a" and "b".                        *)

InitFail ==
    /\ names = <<Text_a, Text_b>>
    /\ boxes = <<Num(1), Nil>>
    /\ held \in {<<Box(1), b, f, x, M, k>> :
                    b \in {Box(2), Nil}, f \in Callables, x \in {Num(5), Nil},
                    M \in {Map(EmptyMap), Map((0 :> Nil) @@ (1 :> Num(1)))},
                    k \in {Keyword(1), Str(Text_c), Num(1)}}
    /\ hist = <<>>
    /\ run = NoRun

FailUpdate == \E xs \in {<<>>, <<4>>} : Update(5, 6, 3, xs)

NextFail == SwapBox \/ Deref \/ FailUpdate

SpecFail == InitFail /\ [][NextFail]_vars

-----------------------------------------------------------------------------
(* second .. tenth: closures of ns() that call operator_nth with an index *)

Ordinals == {"second", "third", "fourth", "fifth", "sixth", "seventh",
             "eigth", "nineth", "tenth"}

(* the index the closure registered under name passes to operator_nth *)
ordinal_index(name) ==
    CASE name = "second" -> 1
      [] name = "third" -> 2
      [] name = "fourth" -> 3
      [] name = "fifth" -> 4
      [] name = "sixth" -> 5
      [] name = "seventh" -> 6
      [] name = "eigth" -> 6
      [] name = "nineth" -> 6
      [] name = "tenth" -> 6

-----------------------------------------------------------------------------
(* Ordinal session: the caller holds a sequence and the indexes 1 to 9,   *)
(* and makes MaxCalls calls of nth and the ordinal accessors in sequence. *)

OrdSeqs ==
    {List([k \in 1..n |-> Num(k)]) : n \in 0..MaxOrd}
        \cup {Cell(Chain(<<Num(1), Num(2), Num(3)>>, e), 1) : e \in {"nil", "value", "error", "loop"}}
        \cup {Nil}

InitOrd ==
    /\ names = <<>>
    /\ boxes = <<>>
    /\ held \in {<<s>> \o [k \in 1..9 |-> Num(k)] : s \in OrdSeqs}
    /\ hist = <<>>
    /\ run = NoRun

Ordinal ==
    \E name \in Ordinals :
        /\ Idle
        /\ Len(hist) < MaxCalls
        /\ LET r == operator_nth(<<held[1], Num(ordinal_index(name))>>)
           IN IF r.done
                THEN Return(name, <<held[1]>>, <<1>>, r.ret, <<>>)
                ELSE Continue(name, <<held[1]>>, <<1>>, r, <<>>)
        /\ UNCHANGED <<names, boxes, held>>

OrdinalLoop ==
    /\ run.pc \in Ordinals
    /\ LET l == run.locals
           r == operator_nth_loop(l.count, l.nth, l.env)
           cb == Append(run.cb, <<l.nth, l.env>>)
       IN IF r.done
            THEN Return(run.pc, run.args, run.src, r.ret, cb)
            ELSE Continue(run.pc, run.args, run.src, r, cb)
    /\ UNCHANGED <<names, boxes, held>>

OrdNth ==
    \E k \in 2..10 :
        /\ Idle
        /\ Len(hist) < MaxCalls
        /\ LET src == <<1, k>>
               r == operator_nth(Args(src))
           IN IF r.done
                THEN Return("nth", Args(src), src, r.ret, <<>>)
                ELSE Continue("nth", Args(src), src, r, <<>>)
        /\ UNCHANGED <<names, boxes, held>>

NextOrd == Ordinal \/ OrdinalLoop \/ OrdNth \/ NthLoop

SpecOrd == InitOrd /\ [][NextOrd]_vars

-----------------------------------------------------------------------------
(* Name-number conversions (743-750, 916-937) *)

(* f64 as i32 on a whole number: the number itself, saturating at the ends *)
(* of i32 *)
as_i32(n) ==
    IF n > 2147483647 THEN 2147483647
    ELSE IF n < -2147483647 - 1 THEN -2147483647 - 1
    ELSE n

core_symbol(v, nm) ==
    CASE v[1].tag = "Str" ->
            LET a == add(nm, v[1].s) IN Out(Ok(Sym(a.id)), a.names)
      [] v[1].tag = "Sym" -> Out(Ok(v[1]), nm)
      [] OTHER -> Out(type_err("string", v[1]), nm)

core_keyword(v, nm) ==
    CASE v[1].tag = "Keyword" -> Out(Ok(v[1]), nm)
      [] v[1].tag = "Str" ->
            LET a == add(nm, v[1].s) IN Out(Ok(Keyword(a.id)), a.names)
      [] OTHER -> Out(type_err("string, keyword", v[1]), nm)

core_keyword_intern_number(v) ==
    CASE v[1].tag = "Keyword" -> Ok(Num(v[1].name))
      [] v[1].tag = "Sym" -> Ok(Num(v[1].name))
      [] OTHER -> type_err("keyword, symbol", v[1])

core_name_from_intern_number(v) ==
    CASE v[1].tag = "Num" -> Ok(Sym(as_i32(v[1].n)))
      [] OTHER -> type_err("number", v[1])

(* Intern session: the reader has interned a and b; the caller holds a     *)
(* text, a symbol or keyword the reader made, and a number                  *)

InternNums == {-1, 0, 1, 2, 5}

InitIntern ==
    /\ names = <<Text_a, Text_b>>
    /\ boxes = <<>>
    /\ held \in {<<Str(s), k, Num(n)>> :
                    s \in {Text_a, Text_c},
                    k \in {Sym(0), Sym(1), Keyword(1)},
                    n \in InternNums}
    /\ hist = <<>>
    /\ run = NoRun

InternSymbol ==
    \E i \in Slots : Native("symbol", <<i>>, core_symbol(Args(<<i>>), names))

InternKeyword ==
    \E i \in Slots : Native("keyword", <<i>>, core_keyword(Args(<<i>>), names))

NameInternNumber ==
    \E i \in Slots :
        Native("name-intern-number", <<i>>,
               Out(core_keyword_intern_number(Args(<<i>>)), names))

SymbolFromInternNumber ==
    \E i \in Slots :
        Native("symbol-from-intern-number", <<i>>,
               Out(core_name_from_intern_number(Args(<<i>>)), names))

NextIntern ==
    InternSymbol \/ InternKeyword \/ NameInternNumber \/ SymbolFromInternNumber

SpecIntern == InitIntern /\ [][NextIntern]_vars

-----------------------------------------------------------------------------
(* The held values a call took as arguments are as they were at the call *)
ArgsUnchanged(c) ==
    \A k \in 1..Len(c.args) : c.src[k] > 0 => held[c.src[k]] = c.args[k]

(* hist[1] is op applied to the result of hist[2], which was op2 *)
Chained(op, op2) ==
    /\ Len(hist) >= 2
    /\ hist[1].op = op
    /\ hist[2].op = op2
    /\ hist[2].ret.ok
    /\ hist[1].src[1] = 0

(* C1: for every List L (the zero-length List included) and every value x, *)
(* first(cons(x, L)) is x, rest(cons(x, L)) is L, and L holds the same     *)
(* elements after the cons call as before it.                              *)
C1_ConsFirstRest ==
    /\ (Chained("first", "cons") /\ hist[2].args[2].tag = "List")
            => hist[1].ret = Ok(hist[2].args[1])
    /\ (Chained("rest", "cons") /\ hist[2].args[2].tag = "List")
            => hist[1].ret = Ok(hist[2].args[2])
    /\ (Len(hist) >= 1 /\ hist[1].op = "cons") => ArgsUnchanged(hist[1])

(* rest was applied to cons(x, L) for the zero-length List L held in slot 2 *)
C1_Witness ==
    /\ Chained("rest", "cons")
    /\ hist[2].args[2] = List(<<>>)
    /\ hist[2].src = <<1, 2>>
    /\ hist[1].ret = Ok(List(<<>>))

-----------------------------------------------------------------------------
ValidKey(k) == k.tag \in {"Sym", "Keyword", "Str"}

(* hist[n] is assoc(M, k, v) for a Map M and a valid key k *)
IsAssoc1(n) ==
    /\ Len(hist) >= n
    /\ hist[n].op = "assoc"
    /\ Len(hist[n].args) = 3
    /\ hist[n].args[1].tag = "Map"
    /\ ValidKey(hist[n].args[2])

(* C2: for every Map M, valid key k and value v, get-key(assoc(M, k, v), k) *)
(* returns v and has-key?(dissoc(assoc(M, k, v), k), k) returns False,      *)
(* whether or not k was present in M.                                       *)
C2_MapRoundTrip ==
    /\ (Chained("get-key", "assoc") /\ IsAssoc1(2)
            /\ hist[1].args[2] = hist[2].args[2])
            => hist[1].ret = Ok(hist[2].args[3])
    /\ (Chained("has-key?", "dissoc") /\ Len(hist) >= 3 /\ IsAssoc1(3)
            /\ hist[2].src[1] = 0
            /\ hist[2].args[2] = hist[3].args[2]
            /\ hist[1].args[2] = hist[3].args[2])
            => hist[1].ret = Ok(False)

(* get-key read back a value assoc stored under a key M did not have *)
C2_Witness ==
    /\ Chained("get-key", "assoc")
    /\ IsAssoc1(2)
    /\ hist[2].args[1] = Map(EmptyMap)
    /\ hist[2].args[2] = Str(Text_c)
    /\ hist[1].args[2] = Str(Text_c)
    /\ hist[1].ret = Ok(Num(2))

(* C7: hash-map with an odd number of arguments, and assoc with a Map and *)
(* an odd number of key/value arguments, return the KeyArgError whatever  *)
(* the arguments in the key positions are.                                *)
C7_OddArgs ==
    Len(hist) >= 1 =>
        /\ (hist[1].op = "hash-map" /\ Len(hist[1].args) % 2 = 1)
                => hist[1].ret = Err("KwArgErr", "hash-map")
        /\ (hist[1].op = "assoc" /\ hist[1].args[1].tag = "Map"
                /\ Len(hist[1].args) % 2 = 0)
                => hist[1].ret = Err("KwArgErr", "assoc")

(* hash-map was called with three arguments, the first no valid key *)
C7_Witness ==
    /\ Len(hist) >= 1
    /\ hist[1].op = "hash-map"
    /\ Len(hist[1].args) = 3
    /\ ~ValidKey(hist[1].args[1])
    /\ hist[1].ret = Err("KwArgErr", "hash-map")

-----------------------------------------------------------------------------
(* v is the first cell of a finite chain: the callback returns a Lazy n - 1 *)
(* times and then a value that is no Lazy *)
FiniteLazy(v) == v.tag = "Lazy" /\ v = Cell(v.tail.of, 1) /\ v.tail.of.end \in {"nil", "value"}

(* C3: on a finite Lazy chain of n cells collect returns the List of the n *)
(* heads in chain order, and nth(seq, i) returns element i of collect(seq) *)
(* for every 0 <= i < n.                                                   *)
C3_CollectNth ==
    \A a \in 1..Len(hist) :
        (hist[a].op = "collect" /\ FiniteLazy(hist[a].args[1])) =>
            /\ hist[a].ret = Ok(List(hist[a].args[1].tail.of.heads))
            /\ \A b \in 1..Len(hist) :
                    (/\ hist[b].op = "nth"
                     /\ hist[b].args[1] = hist[a].args[1]
                     /\ hist[b].args[2].tag = "Num"
                     /\ hist[b].args[2].n >= 0
                     /\ hist[b].args[2].n < Len(hist[a].args[1].tail.of.heads))
                    => /\ hist[a].ret.ok
                       /\ hist[a].ret.val.tag = "List"
                       /\ hist[b].args[2].n < Len(hist[a].ret.val.l)
                       /\ hist[b].ret = Ok(hist[a].ret.val.l[hist[b].args[2].n + 1])

(* nth took the last of three cells with different heads, after collect *)
C3_Witness ==
    /\ Len(hist) >= 2
    /\ hist[1].op = "nth"
    /\ hist[2].op = "collect"
    /\ FiniteLazy(held[1])
    /\ held[1].tail.of.heads = <<Num(1), Num(1), Str(<<"a">>)>>
    /\ held[2] = Num(2)
    /\ hist[1].ret = Ok(Str(<<"a">>))
    /\ Len(hist[1].cb) = 2

-----------------------------------------------------------------------------
(* hist[j] wrote the Box with reference r; Written(j) is what it stored *)
Writes(j, r) ==
    /\ hist[j].op \in {"set-box", "swap-box"}
    /\ hist[j].args[1].tag = "Box"
    /\ hist[j].args[1].ref = r
    /\ hist[j].op = "swap-box" => hist[j].cb[1].res.ok

Written(j) ==
    IF hist[j].op = "set-box" THEN hist[j].args[2] ELSE hist[j].cb[1].res.val

(* C4: a Box is shared by reference: set-box(b, v) returns v, and deref    *)
(* through any holder of a Box returns what the most recent set-box or     *)
(* swap-box through any holder of that Box stored.                         *)
C4_BoxShared ==
    \A i \in 1..Len(hist) :
        /\ (hist[i].op = "set-box" /\ hist[i].args[1].tag = "Box")
                => hist[i].ret = Ok(hist[i].args[2])
        /\ (hist[i].op = "deref" /\ hist[i].args[1].tag = "Box") =>
                \A j \in (i + 1)..Len(hist) :
                    (/\ Writes(j, hist[i].args[1].ref)
                     /\ \A k \in (i + 1)..(j - 1) : ~Writes(k, hist[i].args[1].ref))
                    => hist[i].ret = Ok(Written(j))

(* set-box through slot 1 was followed by deref through slot 2, its alias *)
C4_Witness ==
    /\ Len(hist) >= 2
    /\ held[2] = held[1]
    /\ hist[2].op = "set-box"
    /\ hist[2].src = <<1, 4>>
    /\ hist[1].op = "deref"
    /\ hist[1].src = <<2>>
    /\ hist[1].ret = Ok(Num(5))

(* C5: swap-box(b, fn, extra...) on a Box holding c applies fn to         *)
(* [c, extra...] exactly once, stores the result in b and returns fn.     *)
C5_SwapBox ==
    [][(Len(hist') >= 1 /\ hist' # hist /\ hist'[1].op = "swap-box"
            /\ hist'[1].args[1].tag = "Box") =>
        LET c == hist'[1]
            r == c.args[1].ref
            fnargs == <<boxes[r]>> \o SubSeq(c.args, 3, Len(c.args))
        IN /\ Len(c.cb) = 1
           /\ c.cb[1].f = c.args[2]
           /\ c.cb[1].args = fnargs
           /\ apply(c.args[2], fnargs).ok =>
                /\ boxes'[r] = apply(c.args[2], fnargs).val
                /\ c.ret = Ok(c.args[2])]_vars

(* swap-box with list and one extra argument stored the argument list *)
C5_Witness ==
    /\ Len(hist) >= 1
    /\ hist[1].op = "swap-box"
    /\ hist[1].args = <<Box(1), NatFunc("list"), Num(5)>>
    /\ hist[1].ret = Ok(NatFunc("list"))
    /\ boxes[1] = List(<<Num(1), Num(5)>>)

-----------------------------------------------------------------------------
(* hist[1] is op on make-struct(a, fields...) and a symbol; Same tells     *)
(* whether the symbol has a's name                                         *)
OnStruct(op) ==
    /\ Chained(op, "make-struct")
    /\ hist[1].args[2].tag = "Sym"

SameName == hist[1].args[2].name = hist[2].args[1].name

(* C6: assert-struct on make-struct(a, fields...) returns True with a and *)
(* False, no error, with a symbol of another name; index-struct with a    *)
(* symbol of another name returns the mismatch error for every index,     *)
(* whatever the index argument is.                                        *)
C6_StructIdentity ==
    /\ OnStruct("assert-struct") =>
            hist[1].ret = Ok(IF SameName THEN True ELSE False)
    /\ (OnStruct("index-struct") /\ ~SameName) => hist[1].ret = MismatchErr

(* index-struct was given another symbol and an index the struct has *)
C6_Witness ==
    /\ OnStruct("index-struct")
    /\ ~SameName
    /\ hist[1].args[3] = Num(0)
    /\ Len(hist[2].args) = 3
    /\ hist[1].ret = MismatchErr

-----------------------------------------------------------------------------
(* The template grammar of format: a template is a run of literal         *)
(* characters, the escapes {{ and }}, and the placeholders {} {?} {@sep}  *)
(* {?@sep}, sep being the text up to the closing brace.  Anything else is *)
(* malformed, and reading stops there.                                    *)

Token(kind, debug, text) == [kind |-> kind, debug |-> debug, text |-> text]

RECURSIVE ClosingAt(_, _)
ClosingAt(fmt, i) ==
    IF i > Len(fmt) THEN 0 ELSE IF fmt[i] = "}" THEN i ELSE ClosingAt(fmt, i + 1)

RECURSIVE Tokens(_, _)
Tokens(fmt, i) ==
    IF i > Len(fmt) THEN <<>>
    ELSE IF fmt[i] = "{" THEN
        LET debug == i + 1 <= Len(fmt) /\ fmt[i + 1] = "?"
            at == IF debug THEN i + 2 ELSE i + 1
            close == ClosingAt(fmt, at + 1)
        IN IF i + 1 <= Len(fmt) /\ fmt[i + 1] = "{"
                THEN <<Token("lit", FALSE, <<"{">>)>> \o Tokens(fmt, i + 2)
           ELSE IF at <= Len(fmt) /\ fmt[at] = "}"
                THEN <<Token("arg", debug, <<>>)>> \o Tokens(fmt, at + 1)
           ELSE IF at <= Len(fmt) /\ fmt[at] = "@" /\ close > 0
                THEN <<Token("list", debug, SubSeq(fmt, at + 1, close - 1))>>
                     \o Tokens(fmt, close + 1)
           ELSE <<Token("bad", FALSE, <<>>)>>
    ELSE IF fmt[i] = "}" THEN
        IF i + 1 <= Len(fmt) /\ fmt[i + 1] = "}"
            THEN <<Token("lit", FALSE, <<"}">>)>> \o Tokens(fmt, i + 2)
            ELSE <<Token("bad", FALSE, <<>>)>>
    ELSE <<Token("lit", FALSE, <<fmt[i]>>)>> \o Tokens(fmt, i + 1)

WellFormed(toks) == \A k \in 1..Len(toks) : toks[k].kind # "bad"

IsPlaceholder(t) == t.kind \in {"arg", "list"}

Placeholders(toks) == SelectSeq(toks, IsPlaceholder)

(* the k-th placeholder has an argument of the kind it needs *)
ArgsFit(toks, v) ==
    LET ph == Placeholders(toks)
    IN /\ Len(ph) <= Len(v) - 1
       /\ \A k \in 1..Len(ph) : ph[k].kind = "list" => v[k + 1].tag = "List"

(* the elements of l in one form, sep between consecutive elements *)
Joined(l, debug, sep) ==
    Concat([k \in 1..Len(l) |-> (IF k = 1 THEN <<>> ELSE sep) \o Render(l[k], debug)])

(* the text of a well-formed template whose k-th placeholder renders v's *)
(* argument k; n placeholders precede toks                                *)
RECURSIVE Expected(_, _, _)
Expected(toks, v, n) ==
    IF Len(toks) = 0 THEN <<>>
    ELSE LET t == Head(toks)
         IN CASE t.kind = "lit" -> t.text \o Expected(Tail(toks), v, n)
              [] t.kind = "arg" ->
                    Render(v[n + 2], t.debug) \o Expected(Tail(toks), v, n + 1)
              [] t.kind = "list" ->
                    Joined(v[n + 2].l, t.debug, t.text) \o Expected(Tail(toks), v, n + 1)

(* every list placeholder has a separator and the display form *)
PlainLists(toks) ==
    \A k \in 1..Len(toks) :
        toks[k].kind = "list" => (~toks[k].debug /\ Len(toks[k].text) > 0)

FormatCalled ==
    /\ Len(hist) >= 1
    /\ hist[1].op = "format"
    /\ hist[1].args[1].tag = "Str"

(* C8: the cursor of format starts at argument 1 and moves by one at each *)
(* {} {?} {@...} and not otherwise, so the k-th placeholder renders       *)
(* argument k; a placeholder with no argument left is an error; and       *)
(* format("{{}}") is "{}".                                                *)
C8_FormatCursor ==
    FormatCalled =>
        LET c == hist[1]
            v == c.args
            toks == Tokens(v[1].s, 1)
        IN /\ \A k \in 1..Len(c.cb) : c.cb[k] = k
           /\ (WellFormed(toks) /\ Len(Placeholders(toks)) > Len(v) - 1) => ~c.ret.ok
           /\ (WellFormed(toks) /\ PlainLists(toks) /\ ArgsFit(toks, v)) =>
                    /\ c.ret = Ok(Str(Expected(toks, v, 0)))
                    /\ Len(c.cb) = Len(Placeholders(toks))
           /\ v[1].s = <<"{", "{", "}", "}">> => c.ret = Ok(Str(<<"{", "}">>))

(* an escape, then {?} and {} rendered arguments 1 and 2 *)
C8_Witness ==
    /\ FormatCalled
    /\ hist[1].args = <<Str(<<"{", "{", "{", "?", "}", "{", "}">>), Str(Text_x), Str(Text_x)>>
    /\ hist[1].ret = Ok(Str(<<"{", "\"", "x", "\"", "x">>))
    /\ hist[1].cb = <<1, 2>>

(* C9: {@} and {@sep} take the next argument, a List, and emit its        *)
(* elements in order, all in one form (debug when a ? leads), sep or      *)
(* nothing between them; scanning goes on after the closing brace.        *)
C9_ListPlaceholder ==
    FormatCalled =>
        LET c == hist[1]
            v == c.args
            toks == Tokens(v[1].s, 1)
        IN (/\ WellFormed(toks)
            /\ \E k \in 1..Len(toks) : toks[k].kind = "list"
            /\ ArgsFit(toks, v))
           => c.ret = Ok(Str(Expected(toks, v, 0)))

(* C10: format returns an error for every malformed template: a { not     *)
(* followed by one of the defined forms, a { or {? or unclosed {@sep at   *)
(* the end, or a } outside a placeholder not followed by another }.       *)
C10_MalformedTemplate ==
    FormatCalled => (~WellFormed(Tokens(hist[1].args[1].s, 1)) => ~hist[1].ret.ok)

-----------------------------------------------------------------------------
(* the Name a valid key stands for, in the NamePool as it is now *)
NameOf(k) == IF k.tag = "Str" THEN add(names, k.s).id ELSE k.name

(* C11: for every Map M and valid key k, get-key(M, k) returns an error   *)
(* exactly when has-key?(M, k) returns False, and otherwise the value     *)
(* stored at k; an absent key never yields Nil.                           *)
C11_GetOrError ==
    \A i \in 1..Len(hist), j \in 1..Len(hist) :
        (/\ hist[i].op = "get-key"
         /\ hist[j].op = "has-key?"
         /\ hist[i].args = hist[j].args
         /\ hist[i].args[1].tag = "Map"
         /\ ValidKey(hist[i].args[2]))
        => /\ hist[j].ret \in {Ok(True), Ok(False)}
           /\ ~hist[i].ret.ok <=> hist[j].ret = Ok(False)
           /\ hist[i].ret.ok =>
                hist[i].ret = Ok(hist[i].args[1].m[NameOf(hist[i].args[2])])

(* has-key? said False of a text not interned before, and get-key then *)
(* returned the error                                                  *)
C11_Witness ==
    /\ Len(hist) = 2
    /\ hist[2].op = "has-key?"
    /\ hist[1].op = "get-key"
    /\ hist[1].args = <<Map((0 :> Nil) @@ (1 :> Num(1))), Str(Text_c)>>
    /\ hist[2].args = hist[1].args
    /\ hist[2].ret = Ok(False)
    /\ hist[1].ret = MsgErr("Key is not present in map")

-----------------------------------------------------------------------------
BuildsCollection(op) == op \in {"assoc", "dissoc", "update", "cons", "rev-cons", "append"}

-----------------------------------------------------------------------------
IsEmptySeq(x) == x = Nil \/ x = List(<<>>)

(* the sequence a value denotes: Nil is the List of no elements *)
Denoted(x) == IF x = Nil THEN List(<<>>) ELSE x

(* the calls a and b differ only in which empty sequence they pass *)
SameButEmpties(a, b) ==
    /\ a.op = b.op
    /\ Len(a.args) = Len(b.args)
    /\ \A k \in 1..Len(a.args) :
            a.args[k] = b.args[k] \/ (IsEmptySeq(a.args[k]) /\ IsEmptySeq(b.args[k]))

(* C13: cons, rev-cons, append, nth, len, join, collect, map and reverse   *)
(* treat Nil and the zero-length List alike: with one replaced by the      *)
(* other in a sequence position a success stays a success, and the result  *)
(* denotes the same sequence.                                              *)
C13_EmptyAlike ==
    \A i \in 1..Len(hist), j \in 1..Len(hist) :
        (SameButEmpties(hist[i], hist[j]) /\ hist[i].ret.ok) =>
            /\ hist[j].ret.ok
            /\ Denoted(hist[j].ret.val) = Denoted(hist[i].ret.val)

-----------------------------------------------------------------------------
(* the keys of the key/value arguments kv are all valid *)
KeysValid(kv) == \A k \in 1..Len(kv) : k % 2 = 1 => ValidKey(kv[k])

(* the entries the key/value arguments kv write: one per Name, with the *)
(* value of the last pair whose key has that Name                       *)
Entries(kv) ==
    LET pairs == 1..(Len(kv) \div 2)
        last(n) == CHOOSE p \in pairs :
                        /\ NameOf(kv[2 * p - 1]) = n
                        /\ \A q \in pairs : NameOf(kv[2 * q - 1]) = n => q <= p
    IN [n \in {NameOf(kv[2 * p - 1]) : p \in pairs} |-> kv[2 * last(n)]]

(* the map m with the entries e written over it *)
Over(m, e) == [n \in (DOMAIN m) \cup (DOMAIN e) |-> IF n \in DOMAIN e THEN e[n] ELSE m[n]]

(* C14: map keys are identified by interned Name alone: a Str, a Sym and a *)
(* Keyword with the same text address the same entry in hash-map, assoc,   *)
(* dissoc, get-key, has-key? and update, and a key that occurs several     *)
(* times in the arguments of hash-map or assoc (in any of the three kinds) *)
(* leaves one entry, with the value of its last occurrence.                *)
C14_KeyIsName ==
    \A i \in 1..Len(hist) :
        LET c == hist[i]
            v == c.args
            keyed == Len(v) >= 2 /\ v[1].tag = "Map" /\ ValidKey(v[2])
        IN /\ (c.op = "hash-map" /\ Len(v) % 2 = 0 /\ KeysValid(v))
                => c.ret = Ok(Map(Entries(v)))
           /\ (c.op = "assoc" /\ v[1].tag = "Map" /\ Len(v) % 2 = 1 /\ KeysValid(Tail(v)))
                => c.ret = Ok(Map(Over(v[1].m, Entries(Tail(v)))))
           /\ (c.op = "dissoc" /\ keyed)
                => c.ret = Ok(Map([n \in (DOMAIN v[1].m) \ {NameOf(v[2])} |-> v[1].m[n]]))
           /\ (c.op = "has-key?" /\ keyed)
                => c.ret = Ok(FromBool(NameOf(v[2]) \in DOMAIN v[1].m))
           /\ (c.op = "get-key" /\ keyed /\ NameOf(v[2]) \in DOMAIN v[1].m)
                => c.ret = Ok(v[1].m[NameOf(v[2])])
           /\ (c.op = "update" /\ keyed /\ c.ret.ok)
                => /\ c.ret.val.tag = "Map"
                   /\ DOMAIN c.ret.val.m = (DOMAIN v[1].m) \cup {NameOf(v[2])}
                   /\ \A n \in DOMAIN v[1].m : n # NameOf(v[2]) => c.ret.val.m[n] = v[1].m[n]
                   /\ c.ret.val.m[NameOf(v[2])] = c.cb[1].res.val

(* hash-map was given the text "a" as a Str and then as a Keyword: one *)
(* entry, with the Keyword's value; get-key with the Str then read it  *)
C14_Witness ==
    /\ Len(hist) = 2
    /\ hist[2].op = "hash-map"
    /\ hist[2].args = <<Str(Text_a), Num(2), Keyword(0), Num(3)>>
    /\ hist[2].ret = Ok(Map(0 :> Num(3)))
    /\ hist[1].op = "get-key"
    /\ hist[1].args = <<Map(0 :> Num(3)), Str(Text_a)>>
    /\ hist[1].ret = Ok(Num(3))

-----------------------------------------------------------------------------
(* C15: no registered native aborts: called with an argument list whose   *)
(* length its Arity accepts it returns a Value or an error value, never   *)
(* an out-of-range positional access or slice; the comparison operators   *)
(* with no arguments and chars/slice with bounds outside the Chars or     *)
(* start greater than end included.                                       *)
C15_NoAbort ==
    /\ run.pc # "panicked"
    /\ \A i \in 1..Len(hist) : hist[i].ret.ok \/ hist[i].ret.err # "panic"

-----------------------------------------------------------------------------
(* hist[i] is nth(seq, n) on the first cell of a chain, with n >= 0 *)
NthOnLazy(i) ==
    /\ hist[i].op = "nth"
    /\ hist[i].args[1].tag = "Lazy"
    /\ hist[i].args[1] = Cell(hist[i].args[1].tail.of, 1)
    /\ hist[i].args[2].tag = "Num"
    /\ hist[i].args[2].n >= 0

(* the result of the k-th callback of the call c *)
CbResult(c, k) == eval(c.cb[k][1], c.cb[k][2])

(* C16: nth(seq, n) on a Lazy chain invokes the evaluator callback exactly *)
(* n times when the chain has more than n cells, and stops with Nil right  *)
(* after the first callback result that is no Lazy when the chain ends     *)
(* sooner; nothing is cached and the cell is not updated, so a repeated    *)
(* call with the same arguments makes the same number of callbacks again.  *)
C16_NthCallbacks ==
    \A i \in 1..Len(hist) :
        NthOnLazy(i) =>
            LET c == hist[i]
                of == c.args[1].tail.of
                n == c.args[2].n
                cells == Len(of.heads)
            IN /\ (of.end = "loop" \/ cells > n) =>
                    /\ Len(c.cb) = n
                    /\ c.ret = Ok(of.heads[(n % cells) + 1])
               /\ (of.end \in {"nil", "value"} /\ cells <= n) =>
                    /\ c.ret = Ok(Nil)
                    /\ Len(c.cb) = cells
                    /\ CbResult(c, cells).ok
                    /\ CbResult(c, cells).val.tag # "Lazy"
                    /\ \A k \in 1..(cells - 1) : CbResult(c, k).val.tag = "Lazy"
               /\ ArgsUnchanged(c)
               /\ \A j \in 1..Len(hist) :
                    (hist[j].op = "nth" /\ hist[j].args = c.args) =>
                        /\ hist[j].cb = c.cb
                        /\ hist[j].ret = c.ret

(* nth 2 on a chain of three cells made two callbacks, twice over *)
C16_Witness ==
    /\ Len(hist) >= 2
    /\ NthOnLazy(1)
    /\ NthOnLazy(2)
    /\ hist[1].args = hist[2].args
    /\ hist[1].args[2] = Num(2)
    /\ Len(hist[1].args[1].tail.of.heads) = 3
    /\ hist[1].args[1].tail.of.end = "nil"
    /\ Len(hist[1].cb) = 2
    /\ Len(hist[2].cb) = 2

-----------------------------------------------------------------------------
(* hist[i] is collect on the first cell of a chain *)
CollectOnLazy(i) ==
    /\ hist[i].op = "collect"
    /\ hist[i].args[1].tag = "Lazy"
    /\ hist[i].args[1] = Cell(hist[i].args[1].tail.of, 1)

(* collect has returned: its last callback result was an error or no Lazy, *)
(* every one before it a Lazy, and the chain is not one that goes on for   *)
(* ever                                                                    *)
CollectReturned ==
    \A i \in 1..Len(hist) :
        CollectOnLazy(i) =>
            LET c == hist[i]
                last == CbResult(c, Len(c.cb))
            IN /\ Len(c.cb) >= 1
               /\ \A k \in 1..(Len(c.cb) - 1) :
                    CbResult(c, k).ok /\ CbResult(c, k).val.tag = "Lazy"
               /\ IF last.ok
                    THEN last.val.tag # "Lazy" /\ c.ret.ok
                    ELSE c.ret = last
               /\ c.args[1].tail.of.end # "loop"

(* collect is in its loop on a chain that ends *)
CollectingEnding ==
    /\ run.pc = "collect"
    /\ run.args[1].tag = "Lazy"
    /\ run.args[1].tail.of.end \in {"nil", "value", "error"}

(* C17: collect on a Lazy terminates exactly when the chain is finite or   *)
(* the callback returns an error: it returns after the first callback      *)
(* result that is no Lazy, and while every callback result is again a Lazy *)
(* it goes on without returning a value or an error.                       *)
C17_CollectTermination ==
    /\ []CollectReturned
    /\ CollectingEnding ~> Idle
    /\ [][(run.pc = "collect" /\ run.args[1].tail.of.end = "loop") => run'.pc = "collect"]_vars

(* collect returned the error of the callback after the third cell *)
C17_Witness ==
    /\ Len(hist) >= 1
    /\ CollectOnLazy(1)
    /\ hist[1].args[1].tail.of.end = "error"
    /\ Len(hist[1].cb) = 3
    /\ hist[1].ret = Err("Eval", "raised")

-----------------------------------------------------------------------------
(* C18: index-struct on make-struct(a, f0, ..., fk) with the symbol a      *)
(* returns fi for every index i with 0 <= i <= k, and an error for every   *)
(* index outside that range, every negative index included.                *)
C18_StructIndex ==
    (OnStruct("index-struct") /\ SameName /\ hist[1].args[3].tag = "Num") =>
        LET fields == Tail(hist[2].args)
            i == hist[1].args[3].n
        IN IF 0 <= i /\ i < Len(fields)
            THEN hist[1].ret = Ok(fields[i + 1])
            ELSE ~hist[1].ret.ok

-----------------------------------------------------------------------------
(* C19: when the function passed to swap-box returns an error, swap-box   *)
(* returns that error and the Box still holds the content it had before   *)
(* the call; when the function passed to update returns an error, update  *)
(* returns that error and produces no map.                                *)
C19_FunctionFails ==
    [][(Len(hist') >= 1 /\ hist' # hist) =>
        LET c == hist'[1]
            v == c.args
        IN /\ (c.op = "swap-box" /\ v[1].tag = "Box") =>
                LET r == apply(v[2], <<boxes[v[1].ref]>> \o SubSeq(v, 3, Len(v)))
                IN ~r.ok => (c.ret = r /\ boxes' = boxes)
           /\ (c.op = "update" /\ v[1].tag = "Map" /\ ValidKey(v[2])) =>
                LET n == IF v[2].tag = "Str" THEN add(names', v[2].s).id ELSE v[2].name
                    old == IF n \in DOMAIN v[1].m THEN v[1].m[n] ELSE Nil
                    r == apply(v[3], <<old>> \o SubSeq(v, 4, Len(v)))
                IN ~r.ok => c.ret = r]_vars

(* the function that raises failed swap-box, the Box kept its content, *)
(* and then failed update                                              *)
C19_Witness ==
    /\ Len(hist) = 2
    /\ hist[2].op = "swap-box"
    /\ hist[2].args = <<Box(1), Func("raise")>>
    /\ hist[2].ret = Err("Eval", "raised")
    /\ boxes[1] = Num(1)
    /\ hist[1].op = "update"
    /\ hist[1].args[1] = Map((0 :> Nil) @@ (1 :> Num(1)))
    /\ hist[1].args[2] = Keyword(1)
    /\ hist[1].ret = Err("Eval", "raised")

-----------------------------------------------------------------------------
(* the position an ordinal accessor is named after *)
Position(name) ==
    CASE name = "second" -> 2
      [] name = "third" -> 3
      [] name = "fourth" -> 4
      [] name = "fifth" -> 5
      [] name = "sixth" -> 6
      [] name = "seventh" -> 7
      [] name = "eigth" -> 8
      [] name = "nineth" -> 9
      [] name = "tenth" -> 10

(* C20: each ordinal accessor returns what nth returns with the index one *)
(* less than its ordinal: second is nth 1, third nth 2, ... eigth nth 7,  *)
(* nineth nth 8 and tenth nth 9, for every List, Nil and Lazy argument.   *)
C20_OrdinalIsNth ==
    \A i \in 1..Len(hist), j \in 1..Len(hist) :
        (/\ hist[i].op \in Ordinals
         /\ hist[j].op = "nth"
         /\ hist[j].args = <<hist[i].args[1], Num(Position(hist[i].op) - 1)>>)
        => hist[i].ret = hist[j].ret

-----------------------------------------------------------------------------
(* the pool has handed out the Name n *)
Interned(n) == n \in 0..(Len(names) - 1)

IsName(v) == v.tag \in {"Sym", "Keyword"}

(* C21: every Sym and every Keyword a native returns carries a Name the   *)
(* pool has handed out, and symbol-from-intern-number on the result of     *)
(* name-intern-number on a symbol s returns s.                             *)
C21_NamesInterned ==
    /\ \A i \in 1..Len(hist) :
            (hist[i].ret.ok /\ IsName(hist[i].ret.val))
            => Interned(hist[i].ret.val.name)
    /\ \A i \in 1..(Len(hist) - 1) :
            (/\ hist[i].op = "symbol-from-intern-number"
             /\ hist[i].src = <<0>>
             /\ hist[i + 1].op = "name-intern-number"
             /\ hist[i + 1].args[1].tag = "Sym")
            => hist[i].ret = Ok(hist[i + 1].args[1])

====
